---- MODULE Spec2Model ----
(***************************************************************************)
(* Model of the CBOR codecs of ur-registry's Cardano records:              *)
(*   CardanoSignRequest  (cardano/cardano_sign_request.rs)                 *)
(*   CardanoSignature    (cardano/cardano_signature.rs)                    *)
(*                                                                         *)
(* A buffer is modelled as the sequence of CBOR data-item heads that       *)
(* minicbor's Encoder writes and its Decoder reads one call at a time:     *)
(* a map header, an array header, an integer, a tag, a byte string, a text *)
(* string.  A decoder is a buffer plus a cursor (1-based position).        *)
(***************************************************************************)
EXTENDS Integers, Sequences, FiniteSets, TLC

\* Longest utxos / cert_keys vector explored.
MaxItems == 2

\* ---------------------------------------------------------------------
\* Field keys and registry tags
\* ---------------------------------------------------------------------
REQUEST_ID == 1
SIGN_DATA == 2
UTXOS == 3
CERT_KEYS == 4
ORIGIN == 5

SIG_REQUEST_ID == 1
WITNESS_SET == 2

UUID == 37
CARDANO_UTXO == 2201
CARDANO_CERT_KEY == 2204

\* Range of u8, the type the decoders convert each map key to.
U8_MAX == 255

\* ---------------------------------------------------------------------
\* Values
\* ---------------------------------------------------------------------
\* Option<T>: None and Some(<<>>) are different values.
None == [some |-> FALSE, v |-> <<>>]
Some(x) == [some |-> TRUE, v |-> x]

\* Bytes values (Vec<u8>) and String values (as their UTF-8 bytes) explored.
BytesValues == {<<>>, <<1, 2>>}
IdValues == {<<170, 187>>}
StringValues == {<<>>, <<99, 119>>}

\* Nested records.  Only the fields that tell two elements apart are kept.
CardanoUTXO(hash, index) == [transaction_hash |-> hash, index |-> index]
CardanoCertKey(hash) == [key_hash |-> hash]

UtxoValues == {CardanoUTXO(<<78>>, 3), CardanoUTXO(<<78>>, 4)}
CertKeyValues == {CardanoCertKey(<<229>>), CardanoCertKey(<<87>>)}

SeqsUpTo(S, n) == UNION {[1..k -> S] : k \in 0..n}

\* ---------------------------------------------------------------------
\* minicbor Encoder: each call appends one data-item head
\* ---------------------------------------------------------------------
Tok(ty, n, b) == [ty |-> ty, n |-> n, b |-> b]

e_map(n) == <<Tok("map", n, <<>>)>>
e_array(n) == <<Tok("array", n, <<>>)>>
e_int(k) == <<Tok("int", k, <<>>)>>
e_tag(t) == <<Tok("tag", t, <<>>)>>
e_bytes(b) == <<Tok("bytes", 0, b)>>
e_str(s) == <<Tok("str", 0, s)>>

\* ---------------------------------------------------------------------
\* minicbor Decoder: each call reads one data-item head at the cursor
\* ---------------------------------------------------------------------
Read(buf, pos, ty) ==
    IF pos >= 1 /\ pos <= Len(buf) /\ buf[pos].ty = ty
    THEN [ok |-> TRUE, pos |-> pos + 1, n |-> buf[pos].n, b |-> buf[pos].b]
    ELSE [ok |-> FALSE, pos |-> pos, n |-> 0, b |-> <<>>]

d_map(buf, pos) == Read(buf, pos, "map")
d_array(buf, pos) == Read(buf, pos, "array")
d_int(buf, pos) == Read(buf, pos, "int")
d_tag(buf, pos) == Read(buf, pos, "tag")
d_bytes(buf, pos) == Read(buf, pos, "bytes")
d_str(buf, pos) == Read(buf, pos, "str")

\* Position after n consecutive well-formed values starting at pos, or 0
\* when the buffer ends first.  A tag and the value it tags are one value.
RECURSIVE SkipN(_, _, _)
SkipN(buf, pos, n) ==
    IF n = 0 THEN pos
    ELSE IF pos < 1 \/ pos > Len(buf) THEN 0
    ELSE LET t == buf[pos] IN
         CASE t.ty = "tag" -> SkipN(buf, pos + 1, n)
           [] t.ty = "array" -> SkipN(buf, pos + 1, n - 1 + t.n)
           [] t.ty = "map" -> SkipN(buf, pos + 1, n - 1 + 2 * t.n)
           [] OTHER -> SkipN(buf, pos + 1, n - 1)

d_skip(buf, pos) ==
    LET p == SkipN(buf, pos, 1) IN
    IF p = 0 THEN [ok |-> FALSE, pos |-> pos] ELSE [ok |-> TRUE, pos |-> p]

\* ---------------------------------------------------------------------
\* Nested record codecs (collaborators)
\* ---------------------------------------------------------------------
CardanoUTXO_encode(x) ==
    e_map(2) \o e_int(1) \o e_bytes(x.transaction_hash) \o e_int(2) \o e_int(x.index)

CardanoCertKey_encode(x) ==
    e_map(1) \o e_int(1) \o e_bytes(x.key_hash)

\* ---------------------------------------------------------------------
\* CardanoSignRequest
\* ---------------------------------------------------------------------
CardanoSignRequest_new(request_id, sign_data, utxos, cert_keys, origin) ==
    [request_id |-> request_id, sign_data |-> sign_data, utxos |-> utxos,
     cert_keys |-> cert_keys, origin |-> origin]

\* A default whose request_id is an empty placeholder instead of None.
CardanoSignRequest_default_placeholder ==
    CardanoSignRequest_new(Some(<<>>), <<>>, <<>>, <<>>, None)

\* #[derive(Default)]: None, empty Vec, empty Vec, empty Vec, None.
CardanoSignRequest_default == CardanoSignRequest_new(None, <<>>, <<>>, <<>>, None)

\* get_map_size that forgets to count origin.
get_map_size_no_origin(self) == 3 + (IF self.request_id.some THEN 1 ELSE 0)

get_map_size(self) ==
    3 + (IF self.request_id.some THEN 1 ELSE 0) + (IF self.origin.some THEN 1 ELSE 0)

\* The utxos loop walking the vector from its last element.
RECURSIVE encode_utxos_reversed(_)
encode_utxos_reversed(xs) ==
    IF xs = <<>> THEN <<>>
    ELSE encode_utxos_reversed(Tail(xs)) \o e_tag(CARDANO_UTXO)
             \o CardanoUTXO_encode(Head(xs))

\* for x in &self.utxos { e.tag(CARDANO_UTXO); x.encode(e) }
RECURSIVE encode_utxos(_)
encode_utxos(xs) ==
    IF xs = <<>> THEN <<>>
    ELSE e_tag(CARDANO_UTXO) \o CardanoUTXO_encode(Head(xs)) \o encode_utxos(Tail(xs))

\* for cert_key in &self.cert_keys { e.tag(CARDANO_CERT_KEY); cert_key.encode(e) }
RECURSIVE encode_cert_keys(_)
encode_cert_keys(xs) ==
    IF xs = <<>> THEN <<>>
    ELSE e_tag(CARDANO_CERT_KEY) \o CardanoCertKey_encode(Head(xs))
             \o encode_cert_keys(Tail(xs))

CardanoSignRequest_encode(self) ==
    e_map(get_map_size(self))
    \o (IF self.request_id.some
        THEN e_int(REQUEST_ID) \o e_tag(UUID) \o e_bytes(self.request_id.v)
        ELSE <<>>)
    \o e_int(SIGN_DATA) \o e_bytes(self.sign_data)
    \o e_int(UTXOS) \o e_array(Len(self.utxos)) \o encode_utxos(self.utxos)
    \o e_int(CERT_KEYS) \o e_array(Len(self.cert_keys)) \o encode_cert_keys(self.cert_keys)
    \o (IF self.origin.some THEN e_int(ORIGIN) \o e_str(self.origin.v) ELSE <<>>)

\* ---------------------------------------------------------------------
\* CardanoSignature
\* ---------------------------------------------------------------------
CardanoSignature_new(request_id, witness_set) ==
    [request_id |-> request_id, witness_set |-> witness_set]

CardanoSignature_default == CardanoSignature_new(None, <<>>)

map_size(self) == 1 + (IF self.request_id.some THEN 1 ELSE 0)

\* CardanoSignature::encode writing witness_set before request_id.
CardanoSignature_encode_swapped(self) ==
    e_map(map_size(self))
    \o e_int(WITNESS_SET) \o e_bytes(self.witness_set)
    \o (IF self.request_id.some
        THEN e_int(SIG_REQUEST_ID) \o e_tag(UUID) \o e_bytes(self.request_id.v)
        ELSE <<>>)

CardanoSignature_encode(self) ==
    e_map(map_size(self))
    \o (IF self.request_id.some
        THEN e_int(SIG_REQUEST_ID) \o e_tag(UUID) \o e_bytes(self.request_id.v)
        ELSE <<>>)
    \o e_int(WITNESS_SET) \o e_bytes(self.witness_set)

\* ---------------------------------------------------------------------
\* Decoding
\* ---------------------------------------------------------------------
\* Result<(), Error> of a decoding step, with the cursor and the object
\* under construction.  On Err the cursor is where the failed read stood.
Ok(pos, obj) == [ok |-> TRUE, pos |-> pos, obj |-> obj]
Err(pos) == [ok |-> FALSE, pos |-> pos, obj |-> <<>>]

\* CardanoUTXO::decode: a map of transaction_hash (1) and index (2).
CardanoUTXO_decode(buf, pos) ==
    LET h == d_map(buf, pos)
        k1 == d_int(buf, pos + 1)
        v1 == d_bytes(buf, pos + 2)
        k2 == d_int(buf, pos + 3)
        v2 == d_int(buf, pos + 4) IN
    IF ~h.ok \/ h.n # 2 THEN Err(pos)
    ELSE IF ~k1.ok \/ k1.n # 1 THEN Err(pos + 1)
    ELSE IF ~v1.ok THEN Err(pos + 2)
    ELSE IF ~k2.ok \/ k2.n # 2 THEN Err(pos + 3)
    ELSE IF ~v2.ok THEN Err(pos + 4)
    ELSE Ok(pos + 5, CardanoUTXO(v1.b, v2.n))

\* CardanoCertKey::decode: a map of key_hash (1).
CardanoCertKey_decode(buf, pos) ==
    LET h == d_map(buf, pos)
        k1 == d_int(buf, pos + 1)
        v1 == d_bytes(buf, pos + 2) IN
    IF ~h.ok \/ h.n # 1 THEN Err(pos)
    ELSE IF ~k1.ok \/ k1.n # 1 THEN Err(pos + 1)
    ELSE IF ~v1.ok THEN Err(pos + 2)
    ELSE Ok(pos + 3, CardanoCertKey(v1.b))

\* array.push(T::decode(d, _ctx)?); Ok(())
push(array, x) == IF ~x.ok THEN Err(x.pos) ELSE Ok(x.pos, Append(array, x.obj))

\* |index, array, d| { d.tag()?; array.push(CardanoUTXO::decode(d, _ctx)?); Ok(()) }
utxos_element(buf, pos, array) ==
    LET t == d_tag(buf, pos) IN
    IF ~t.ok THEN Err(pos) ELSE push(array, CardanoUTXO_decode(buf, t.pos))

\* |index, array, d| { d.tag()?; array.push(CardanoCertKey::decode(d, _ctx)?); Ok(()) }
cert_keys_element(buf, pos, array) ==
    LET t == d_tag(buf, pos) IN
    IF ~t.ok THEN Err(pos) ELSE push(array, CardanoCertKey_decode(buf, t.pos))

\* cbor_array(d, obj, cb): read the array header, then exactly that many
\* elements, each consumed by cb (the closure for `field`).  r is what cb
\* returned for the element just read.
RECURSIVE cbor_array_loop(_, _, _, _, _)
cbor_array_step(field, buf, r, left) ==
    IF ~r.ok THEN r ELSE cbor_array_loop(field, buf, r.pos, r.obj, left - 1)

cbor_array_loop(field, buf, pos, array, left) ==
    IF left = 0 THEN Ok(pos, array)
    ELSE cbor_array_step(field, buf,
                         IF field = UTXOS THEN utxos_element(buf, pos, array)
                         ELSE cert_keys_element(buf, pos, array),
                         left)

cbor_array(field, buf, pos, array) ==
    LET h == d_array(buf, pos) IN
    IF ~h.ok THEN Err(pos) ELSE cbor_array_loop(field, buf, h.pos, array, h.n)

\* cbor_array(d, &mut obj.<field>, ..)?: the closure pushed onto the field.
filled(obj, field, a) ==
    IF ~a.ok THEN Err(a.pos) ELSE Ok(a.pos, [obj EXCEPT ![field] = a.obj])

\* u8::try_from(key)
u8_try_from(key) == key >= 0 /\ key <= U8_MAX

\* read_request_id without the d.tag()? that consumes the UUID tag.
read_request_id_no_tag(obj, buf, pos) ==
    LET b == d_bytes(buf, pos) IN
    IF ~b.ok THEN Err(pos) ELSE Ok(b.pos, [obj EXCEPT !.request_id = Some(b.b)])

\* d.tag()?; obj.set_request_id(Some(d.bytes()?.to_vec()));
read_request_id(obj, buf, pos) ==
    LET t == d_tag(buf, pos) IN
    IF ~t.ok THEN Err(pos)
    ELSE LET b == d_bytes(buf, t.pos) IN
         IF ~b.ok THEN Err(t.pos)
         ELSE Ok(b.pos, [obj EXCEPT !.request_id = Some(b.b)])

\* `_ => {}`: the arm for every other u8 key reads nothing.
unrecognised_reads_head(obj, buf, pos) == Ok(pos + 1, obj)

unrecognised(obj, buf, pos) == Ok(pos, obj)

\* The closure CardanoSignRequest::decode hands to cbor_map.
CardanoSignRequest_dispatch(key, obj, buf, pos) ==
    IF ~u8_try_from(key) THEN Err(pos)
    ELSE CASE key = REQUEST_ID -> read_request_id(obj, buf, pos)
           [] key = SIGN_DATA ->
                LET b == d_bytes(buf, pos) IN
                IF ~b.ok THEN Err(pos) ELSE Ok(b.pos, [obj EXCEPT !.sign_data = b.b])
           [] key = UTXOS ->
                filled(obj, "utxos", cbor_array(UTXOS, buf, pos, obj.utxos))
           [] key = CERT_KEYS ->
                filled(obj, "cert_keys", cbor_array(CERT_KEYS, buf, pos, obj.cert_keys))
           [] key = ORIGIN ->
                LET s == d_str(buf, pos) IN
                IF ~s.ok THEN Err(pos) ELSE Ok(s.pos, [obj EXCEPT !.origin = Some(s.b)])
           [] OTHER -> unrecognised(obj, buf, pos)

\* The closure CardanoSignature::decode hands to cbor_map.
CardanoSignature_dispatch(key, obj, buf, pos) ==
    IF ~u8_try_from(key) THEN Err(pos)
    ELSE CASE key = SIG_REQUEST_ID -> read_request_id(obj, buf, pos)
           [] key = WITNESS_SET ->
                LET b == d_bytes(buf, pos) IN
                IF ~b.ok THEN Err(pos) ELSE Ok(b.pos, [obj EXCEPT !.witness_set = b.b])
           [] OTHER -> unrecognised(obj, buf, pos)

\* cbor_map(d, obj, cb): read the map header, then exactly that many
\* entries.  Per entry: read the key, let cb (the closure of record type
\* `kind`) consume the value; a value cb left untouched is consumed by the
\* generic skip.  r is what cb returned for the key read just before kpos.
RECURSIVE cbor_map_loop(_, _, _, _, _)
cbor_map_step(kind, buf, kpos, r, left) ==
    IF ~r.ok THEN r
    ELSE IF r.pos = kpos
         THEN LET s == d_skip(buf, kpos) IN
              IF ~s.ok THEN Err(kpos)
              ELSE cbor_map_loop(kind, buf, s.pos, r.obj, left - 1)
         ELSE cbor_map_loop(kind, buf, r.pos, r.obj, left - 1)

cbor_map_loop(kind, buf, pos, obj, left) ==
    IF left = 0 THEN Ok(pos, obj)
    ELSE LET k == d_int(buf, pos) IN
         IF ~k.ok THEN Err(pos)
         ELSE cbor_map_step(kind, buf, k.pos,
                            IF kind = "req"
                            THEN CardanoSignRequest_dispatch(k.n, obj, buf, k.pos)
                            ELSE CardanoSignature_dispatch(k.n, obj, buf, k.pos),
                            left)

cbor_map(kind, buf, pos, obj) ==
    LET h == d_map(buf, pos) IN
    IF ~h.ok THEN Err(pos) ELSE cbor_map_loop(kind, buf, h.pos, obj, h.n)

\* `?` on a Result: Err returns early with the error, Ok goes on.
try(r) == IF ~r.ok THEN Err(r.pos) ELSE r

\* What `?` would be if the error were dropped and the object kept as it is.
try_lenient(r) == IF ~r.ok THEN Ok(r.pos, CardanoSignRequest_default) ELSE r

\* decode that swallows cbor_map's error and returns the record it has.
CardanoSignRequest_decode_lenient(buf, pos) ==
    try_lenient(cbor_map("req", buf, pos, CardanoSignRequest_default))

\* Decode::decode: let mut r = default(); cbor_map(d, &mut r, ..)?; Ok(r)
CardanoSignRequest_decode(buf, pos) ==
    try(cbor_map("req", buf, pos, CardanoSignRequest_default))

CardanoSignature_decode(buf, pos) ==
    try(cbor_map("sig", buf, pos, CardanoSignature_default))

\* URResult of from_cbor: Ok(record) or Err(URError::CborDecodeError(msg)).
\* val holds the returned record, if any; stop is where decoding stopped.
URResult(r) ==
    IF r.ok THEN [ok |-> TRUE, err |-> "", val |-> <<r.obj>>, stop |-> r.pos]
    ELSE [ok |-> FALSE, err |-> "CborDecodeError", val |-> <<>>, stop |-> r.pos]

CardanoSignRequest_from_cbor(bytes) == URResult(CardanoSignRequest_decode(bytes, 1))

CardanoSignature_from_cbor(bytes) == URResult(CardanoSignature_decode(bytes, 1))

\* to_bytes: minicbor::to_vec never fails on a Vec sink.
CardanoSignRequest_to_bytes(self) == CardanoSignRequest_encode(self)

CardanoSignature_to_bytes(self) == CardanoSignature_encode(self)

\* ---------------------------------------------------------------------
\* Buffers handed to from_cbor
\* ---------------------------------------------------------------------
FieldKeys(k) == IF k = "req" THEN {REQUEST_ID, SIGN_DATA, UTXOS, CERT_KEYS, ORIGIN}
                ELSE {SIG_REQUEST_ID, WITNESS_SET}

\* Integer keys outside a record's field table, inside and outside u8.
UnknownKeys(k) == {-1, 3, U8_MAX, U8_MAX + 1} \ FieldKeys(k)

\* Well-formed values of an unrecognised entry: a scalar, an array, a map
\* holding a tagged value.
ExtraValues ==
    {e_int(7),
     e_array(2) \o e_int(1) \o e_str(<<97>>),
     e_map(1) \o e_int(1) \o e_tag(UUID) \o e_bytes(<<1>>)}

OtherTags == {UUID, CARDANO_UTXO, CARDANO_CERT_KEY}

\* Positions of the keys of the top-level map's entries.
RECURSIVE EntryStartsFrom(_, _, _)
EntryStartsFrom(b, pos, left) ==
    IF left = 0 \/ pos = 0 THEN <<>>
    ELSE <<pos>> \o EntryStartsFrom(b, SkipN(b, pos, 2), left - 1)

EntryStarts(b) == EntryStartsFrom(b, 2, b[1].n)

TopKeys(b) == [i \in 1..Len(EntryStarts(b)) |-> b[EntryStarts(b)[i]].n]

\* Position one past entry i (entry 0 is the header).
EntryEnd(b, i) == IF i = 0 THEN 2 ELSE SkipN(b, EntryStarts(b)[i], 2)

\* b with one more entry (key, val) after entry i.
WithEntry(b, i, key, val) ==
    LET p == EntryEnd(b, i) IN
    e_map(b[1].n + 1) \o SubSeq(b, 2, p - 1) \o e_int(key) \o val
        \o SubSeq(b, p, Len(b))

\* The entries of b, from position pos on, whose keys are not in S.
RECURSIVE KeepEntries(_, _, _, _)
KeepEntries(b, pos, left, S) ==
    IF left = 0 THEN <<>>
    ELSE LET q == SkipN(b, pos, 2) IN
         (IF b[pos].n \in S THEN <<>> ELSE SubSeq(b, pos, q - 1))
         \o KeepEntries(b, q, left - 1, S)

\* b without the entries whose keys are in S.
WithoutEntries(b, S) ==
    LET ks == TopKeys(b) IN
    e_map(Cardinality({i \in 1..Len(ks) : ks[i] \notin S})) \o KeepEntries(b, 2, b[1].n, S)

NoTamper == [op |-> "none", at |-> 0, key |-> 0, idx |-> 0, keys |-> {}]

\* ---------------------------------------------------------------------
\* State
\* ---------------------------------------------------------------------
VARIABLES
    phase,   \* "build", "encoded", "decoded"
    kind,    \* which record type this run handles: "req" or "sig"
    req,     \* the CardanoSignRequest being populated
    sig,     \* the CardanoSignature being populated
    buf,     \* the buffer in flight between to_bytes and from_cbor
    tamper,  \* what happened to buf after to_bytes wrote it
    res      \* the URResult from_cbor returned

vars == <<phase, kind, req, sig, buf, tamper, res>>

NoResult == [ok |-> FALSE, err |-> "", val |-> <<>>, stop |-> 0]

Init ==
    /\ phase = "build"
    /\ kind \in {"req", "sig"}
    /\ req = CardanoSignRequest_default
    /\ sig = CardanoSignature_default
    /\ buf = <<>>
    /\ tamper = NoTamper
    /\ res = NoResult

OptionValues(S) == {None} \cup {Some(x) : x \in S}

\* --- CardanoSignRequest constructor and setters ---
New ==
    /\ phase = "build" /\ kind = "req"
    /\ req = CardanoSignRequest_default
    /\ \E id \in OptionValues(IdValues), data \in BytesValues,
          us \in SeqsUpTo(UtxoValues, MaxItems), cs \in SeqsUpTo(CertKeyValues, MaxItems),
          o \in OptionValues(StringValues) :
          req' = CardanoSignRequest_new(id, data, us, cs, o)
    /\ UNCHANGED <<phase, kind, sig, buf, tamper, res>>

set_request_id ==
    /\ phase = "build" /\ kind = "req"
    /\ \E id \in OptionValues(IdValues) : req' = [req EXCEPT !.request_id = id]
    /\ UNCHANGED <<phase, kind, sig, buf, tamper, res>>

set_sign_data ==
    /\ phase = "build" /\ kind = "req"
    /\ \E data \in BytesValues : req' = [req EXCEPT !.sign_data = data]
    /\ UNCHANGED <<phase, kind, sig, buf, tamper, res>>

set_utxos ==
    /\ phase = "build" /\ kind = "req"
    /\ \E us \in SeqsUpTo(UtxoValues, MaxItems) : req' = [req EXCEPT !.utxos = us]
    /\ UNCHANGED <<phase, kind, sig, buf, tamper, res>>

set_cert_keys ==
    /\ phase = "build" /\ kind = "req"
    /\ \E cs \in SeqsUpTo(CertKeyValues, MaxItems) : req' = [req EXCEPT !.cert_keys = cs]
    /\ UNCHANGED <<phase, kind, sig, buf, tamper, res>>

set_origin ==
    /\ phase = "build" /\ kind = "req"
    /\ \E o \in OptionValues(StringValues) : req' = [req EXCEPT !.origin = o]
    /\ UNCHANGED <<phase, kind, sig, buf, tamper, res>>

\* --- CardanoSignature constructor and setters ---
SigNew ==
    /\ phase = "build" /\ kind = "sig"
    /\ sig = CardanoSignature_default
    /\ \E id \in OptionValues(IdValues), w \in BytesValues :
          sig' = CardanoSignature_new(id, w)
    /\ UNCHANGED <<phase, kind, req, buf, tamper, res>>

sig_set_request_id ==
    /\ phase = "build" /\ kind = "sig"
    /\ \E id \in OptionValues(IdValues) : sig' = [sig EXCEPT !.request_id = id]
    /\ UNCHANGED <<phase, kind, req, buf, tamper, res>>

set_witness_set ==
    /\ phase = "build" /\ kind = "sig"
    /\ \E w \in BytesValues : sig' = [sig EXCEPT !.witness_set = w]
    /\ UNCHANGED <<phase, kind, req, buf, tamper, res>>

\* --- to_bytes ---
ToBytes ==
    /\ phase = "build"
    /\ buf' = IF kind = "req" THEN CardanoSignRequest_to_bytes(req)
              ELSE CardanoSignature_to_bytes(sig)
    /\ phase' = "encoded"
    /\ UNCHANGED <<kind, req, sig, tamper, res>>

\* --- what a sender other than to_bytes may have put in the buffer ---
Untouched == phase = "encoded" /\ tamper = NoTamper

InsertUnknown ==
    /\ Untouched
    /\ \E i \in 0..buf[1].n, key \in UnknownKeys(kind), val \in ExtraValues :
          /\ buf' = WithEntry(buf, i, key, val)
          /\ tamper' = [NoTamper EXCEPT !.op = "insert", !.at = EntryEnd(buf, i),
                                        !.key = key, !.idx = i]
    /\ UNCHANGED <<phase, kind, req, sig, res>>

ReplaceTag ==
    /\ Untouched
    /\ \E p \in 1..Len(buf), t \in OtherTags :
          /\ buf[p].ty = "tag" /\ buf[p].n # t
          /\ buf' = [buf EXCEPT ![p].n = t]
          /\ tamper' = [NoTamper EXCEPT !.op = "tag", !.at = p, !.key = t]
    /\ UNCHANGED <<phase, kind, req, sig, res>>

FlipScalar ==
    /\ Untouched
    /\ \E p \in 1..Len(buf) :
          /\ buf[p].ty \in {"bytes", "str"}
          /\ buf' = [buf EXCEPT ![p].ty = IF buf[p].ty = "bytes" THEN "str" ELSE "bytes"]
          /\ tamper' = [NoTamper EXCEPT !.op = "flip", !.at = p]
    /\ UNCHANGED <<phase, kind, req, sig, res>>

RemoveTag ==
    /\ Untouched
    /\ \E p \in 1..Len(buf) :
          /\ buf[p].ty = "tag"
          /\ buf' = SubSeq(buf, 1, p - 1) \o SubSeq(buf, p + 1, Len(buf))
          /\ tamper' = [NoTamper EXCEPT !.op = "untag", !.at = p]
    /\ UNCHANGED <<phase, kind, req, sig, res>>

Truncate ==
    /\ Untouched
    /\ \E p \in 1..Len(buf) :
          /\ buf' = SubSeq(buf, 1, p - 1)
          /\ tamper' = [NoTamper EXCEPT !.op = "trunc", !.at = p]
    /\ UNCHANGED <<phase, kind, req, sig, res>>

RemoveEntries ==
    /\ Untouched
    /\ \E S \in SUBSET {TopKeys(buf)[i] : i \in 1..buf[1].n} :
          /\ S # {}
          /\ Cardinality(S) < buf[1].n
          /\ buf' = WithoutEntries(buf, S)
          /\ tamper' = [NoTamper EXCEPT !.op = "remove", !.keys = S]
    /\ UNCHANGED <<phase, kind, req, sig, res>>

\* --- from_cbor ---
FromCbor ==
    /\ phase = "encoded"
    /\ res' = IF kind = "req" THEN CardanoSignRequest_from_cbor(buf)
              ELSE CardanoSignature_from_cbor(buf)
    /\ phase' = "decoded"
    /\ UNCHANGED <<kind, req, sig, buf, tamper>>

Next ==
    \/ New \/ set_request_id \/ set_sign_data \/ set_utxos \/ set_cert_keys \/ set_origin
    \/ SigNew \/ sig_set_request_id \/ set_witness_set
    \/ ToBytes
    \/ InsertUnknown \/ ReplaceTag \/ FlipScalar \/ RemoveTag \/ Truncate \/ RemoveEntries
    \/ FromCbor

Spec == Init /\ [][Next]_vars

\* ---------------------------------------------------------------------
\* Properties
\* ---------------------------------------------------------------------
\* The record handed to to_bytes, and the buffer to_bytes wrote for it.
Sent == IF kind = "req" THEN req ELSE sig
Written == IF kind = "req" THEN CardanoSignRequest_to_bytes(req)
           ELSE CardanoSignature_to_bytes(sig)
Decoded == phase = "decoded"
Intact == phase # "build" /\ tamper = NoTamper
Returned == res.val[1]

\* What from_cbor returns for the buffer as to_bytes wrote it.
Reference == IF kind = "req" THEN CardanoSignRequest_from_cbor(Written)
             ELSE CardanoSignature_from_cbor(Written)

\* Number of optional fields of the sent record that are present.
Present == IF kind = "req"
           THEN (IF req.request_id.some THEN 1 ELSE 0) + (IF req.origin.some THEN 1 ELSE 0)
           ELSE (IF sig.request_id.some THEN 1 ELSE 0)

\* C1: Round-trip.  from_cbor(to_bytes(r)) succeeds and returns a record
\* equal to r field by field, for sign requests and for signatures.
C1_RoundTrip ==
    (Decoded /\ Intact) => (res.ok /\ res.val = <<Sent>>)

C1_Witness ==
    /\ Decoded /\ Intact /\ kind = "req" /\ res.ok
    /\ req.request_id.some /\ ~req.origin.some
    /\ Len(req.utxos) = 2 /\ req.cert_keys = <<>> /\ req.sign_data # <<>>

\* C2: Map-size invariant.  The count in the map header equals the number of
\* key/value pairs that follow it (skipping 2 * count values from the first
\* key lands exactly on the end of the buffer), and it is 3 (sign request)
\* or 1 (signature) plus the number of optional fields present.
C2_MapSize ==
    Intact =>
        /\ buf[1].ty = "map"
        /\ SkipN(buf, 2, 2 * buf[1].n) = Len(buf) + 1
        /\ Len(EntryStarts(buf)) = buf[1].n
        /\ \A i \in 1..buf[1].n : buf[EntryStarts(buf)[i]].ty = "int"
        /\ buf[1].n = (IF kind = "req" THEN 3 ELSE 1) + Present

C2_Witness ==
    /\ Intact /\ kind = "sig"
    /\ sig = CardanoSignature_new(Some(<<170, 187>>), <<1, 2>>)
    /\ buf[1].n = 2 /\ Len(EntryStarts(buf)) = 2

\* C5: Canonical key order.  The keys of the entries to_bytes writes are
\* strictly ascending and are exactly the keys of the fields present.
C5_KeyOrder ==
    Intact =>
        LET ks == TopKeys(buf) IN
        /\ \A i \in 1..(Len(ks) - 1) : ks[i] < ks[i + 1]
        /\ {ks[i] : i \in 1..Len(ks)} =
              IF kind = "req"
              THEN {SIGN_DATA, UTXOS, CERT_KEYS}
                     \cup (IF req.request_id.some THEN {REQUEST_ID} ELSE {})
                     \cup (IF req.origin.some THEN {ORIGIN} ELSE {})
              ELSE {WITNESS_SET} \cup (IF sig.request_id.some THEN {SIG_REQUEST_ID} ELSE {})

C5_Witness ==
    /\ Intact /\ kind = "req"
    /\ TopKeys(buf) = <<REQUEST_ID, SIGN_DATA, UTXOS, CERT_KEYS, ORIGIN>>

\* Positions of the n elements of the array whose header is at position pos.
RECURSIVE ElementStarts(_, _, _)
ElementStarts(b, pos, n) ==
    IF n = 0 THEN <<>> ELSE <<pos>> \o ElementStarts(b, SkipN(b, pos, 1), n - 1)

\* The array written at key `key` holds exactly the encodings in `items`,
\* in order, each preceded by `tag`.
ArrayHolds(b, key, tag, items) ==
    \E i \in 1..Len(EntryStarts(b)) :
        LET p == EntryStarts(b)[i]
            es == ElementStarts(b, p + 2, Len(items)) IN
        /\ b[p].n = key
        /\ b[p + 1] = Tok("array", Len(items), <<>>)
        /\ SkipN(b, p + 1, 1) = SkipN(b, p + 2, Len(items))
        /\ \A j \in 1..Len(items) :
              /\ b[es[j]] = Tok("tag", tag, <<>>)
              /\ SubSeq(b, es[j] + 1, SkipN(b, es[j], 1) - 1) = items[j]

\* C6: Repeated nested fields.  utxos and cert_keys are written as an array
\* header with the element count, then the elements in their original order,
\* each preceded by its registry tag; decoding returns the same sequences.
C6_RepeatedNested ==
    (Intact /\ kind = "req") =>
        /\ ArrayHolds(buf, UTXOS, CARDANO_UTXO,
                      [j \in 1..Len(req.utxos) |-> CardanoUTXO_encode(req.utxos[j])])
        /\ ArrayHolds(buf, CERT_KEYS, CARDANO_CERT_KEY,
                      [j \in 1..Len(req.cert_keys) |-> CardanoCertKey_encode(req.cert_keys[j])])
        /\ Decoded => /\ res.ok
                      /\ Returned.utxos = req.utxos
                      /\ Returned.cert_keys = req.cert_keys

C6_Witness ==
    /\ Decoded /\ Intact /\ kind = "req" /\ res.ok
    /\ Len(req.utxos) = 2 /\ req.utxos[1] # req.utxos[2]
    /\ Len(req.cert_keys) = 2 /\ req.cert_keys[1] # req.cert_keys[2]
    /\ Returned.utxos = req.utxos

\* C7: Cursor integrity on skipped keys.  An entry whose key reaches the
\* `_ => {}` arm (a u8 outside the field table), placed before or between the
\* known entries, has its whole value consumed: decode succeeds and returns
\* the record it returns without that entry.
C7_SkippedKeys ==
    (Decoded /\ tamper.op = "insert" /\ u8_try_from(tamper.key)
        /\ tamper.idx < Written[1].n)
    => (res.ok /\ res.val = Reference.val /\ res.stop = Len(buf) + 1)

C7_Witness ==
    /\ Decoded /\ tamper.op = "insert" /\ tamper.key = U8_MAX
    /\ kind = "req" /\ tamper.idx = 1 /\ req.origin.some /\ Len(req.utxos) = 1
    /\ buf[tamper.at + 1].ty = "array"
    /\ res.ok /\ Returned = req

\* C9: Fail-fast decode.  When the value of a recognised key cannot be read
\* (byte string and text string exchanged, the tag missing, the input ending
\* early), from_cbor returns Err(CborDecodeError), returns no record, and the
\* cursor never went past the item that failed.
C9_FailFast ==
    (Decoded /\ tamper.op \in {"flip", "untag", "trunc"})
    => (~res.ok /\ res.err = "CborDecodeError" /\ res.val = <<>>
            /\ res.stop = tamper.at)

C9_Witness ==
    /\ Decoded /\ tamper.op = "flip" /\ kind = "req"
    /\ buf[tamper.at - 1] = Tok("int", SIGN_DATA, <<>>)
    /\ req.origin.some /\ Len(req.utxos) = 1
    /\ ~res.ok /\ res.stop < Len(buf)

\* The value a field has after decoding a map that has no entry for it.
IfKept(S, key, sent, dflt) == IF key \in S THEN dflt ELSE sent

\* C10: decode does not require any field.  A map with at least one entry
\* that lacks some field keys decodes successfully; a missing sign_data or
\* witness_set is the empty byte string, missing utxos or cert_keys are
\* empty, a missing request_id or origin is None; fields still there keep
\* their values.
C10_MissingFields ==
    (Decoded /\ tamper.op = "remove") =>
        /\ res.ok
        /\ IF kind = "req"
           THEN Returned = CardanoSignRequest_new(
                    IfKept(tamper.keys, REQUEST_ID, req.request_id, None),
                    IfKept(tamper.keys, SIGN_DATA, req.sign_data, <<>>),
                    IfKept(tamper.keys, UTXOS, req.utxos, <<>>),
                    IfKept(tamper.keys, CERT_KEYS, req.cert_keys, <<>>),
                    IfKept(tamper.keys, ORIGIN, req.origin, None))
           ELSE Returned = CardanoSignature_new(
                    IfKept(tamper.keys, SIG_REQUEST_ID, sig.request_id, None),
                    IfKept(tamper.keys, WITNESS_SET, sig.witness_set, <<>>))

\* A sign request sent with sign_data h'0102' arrives without key 2 and with
\* 2 entries; decode succeeds, and encoding the result writes 3 entries.
C10_Witness ==
    /\ Decoded /\ tamper.op = "remove" /\ kind = "req" /\ res.ok
    /\ tamper.keys = {REQUEST_ID, SIGN_DATA} /\ req.sign_data = <<1, 2>>
    /\ req.request_id.some
    /\ Returned.sign_data = <<>> /\ Returned.request_id = None
    /\ buf[1].n = 2
    /\ CardanoSignRequest_encode(Returned)[1].n = 3

\* C3: Nested tag enforcement.  A buffer in which the tag of a utxos
\* element, of a cert_keys element or of request_id was replaced by another
\* tag number is rejected by decode.
C3_TagEnforced ==
    (Decoded /\ tamper.op = "tag") => ~res.ok

\* C4: Unknown-key tolerance.  One extra entry after the last known field,
\* with any integer key outside the field table and a well-formed value,
\* decodes successfully to the record decoded without it.
C4_UnknownKeyTolerated ==
    (Decoded /\ tamper.op = "insert" /\ tamper.idx = Written[1].n)
    => (res.ok /\ res.val = Reference.val)

\* C8: Permissive decoding over all integer keys.  An entry whose key is
\* any integer outside the field table, negative or above 255 included, does
\* not make decode fail.
C8_AnyIntegerKey ==
    (Decoded /\ tamper.op = "insert") => res.ok

====
